---- MODULE Spec2Model ----
(***************************************************************************)
(* papa_pizza: the order / customer store of src/database.py, the shell    *)
(* commands of src/cli.py that drive it and the main() of src/main.py.     *)
(*                                                                         *)
(* Prices are kept in cents, the amounts of an OrderCost in hundredths of  *)
(* a cent, time in whole clock ticks.  An Order's customer is a Python     *)
(* object reference: [phone, inStore] says whether the object              *)
(* is the one held by all_customers under that phone (inStore) or an       *)
(* object the caller built itself and never added (detached).              *)
(***************************************************************************)
EXTENDS Integers, Sequences, FiniteSets, TLC

VARIABLES data, file, now, message, pc, exited_once, steps, output, default_t

vars == <<data, file, now, message, pc, exited_once, steps, output, default_t>>

---------------------------------------------------------------------------
(* Bounds of the model *)

\* orders the store holds at most
MaxOrders == 2
\* events of one behaviour of the shell: command lines read and clock ticks
MaxSteps == 4
\* events of one behaviour of a program that calls the store itself
MaxCalls == 3
\* events of one behaviour of the shell once a day's orders are in the store
MaxViews == 2

---------------------------------------------------------------------------
(* database.py: Status, all_items *)

PENDING == 1
IN_PROGRESS == 2
CANCELLED == 3
DONE == 4

Status == {PENDING, IN_PROGRESS, CANCELLED, DONE}

\* Status.<member>.name
StatusName(v) ==
    CASE v = PENDING -> "PENDING"
      [] v = IN_PROGRESS -> "IN_PROGRESS"
      [] v = CANCELLED -> "CANCELLED"
      [] v = DONE -> "DONE"

\* Status[name]
StatusOfName(n) == CHOOSE v \in Status : StatusName(v) = n

\* unit prices in cents
all_items ==
    ("Pepperoni" :> 2100) @@ ("Chicken Supreme" :> 2350) @@
    ("BBQ Meatlovers" :> 2550) @@ ("Veg Supreme" :> 2250) @@
    ("Hawaiian" :> 1900) @@ ("Margherita" :> 1850)

\* Python's None for completed_time; a set value t is <<t>>
None == <<>>
Some(t) == <<t>>

\* random.randint(1000, 9999): the model draws from the low end of the range
IdLo == 1000
Ids == {IdLo, IdLo + 1}

---------------------------------------------------------------------------
(* Inputs the shell user or an API caller can supply *)

Phones == {"0401", "0402"}
Names == {"Ann", "Bob"}

\* an item the catalog does not have
UnknownItem == "Pineapple"

\* one prompt round of start_order: <<item name typed, count typed>>;
\* the count is <<n>> for text int() accepts and <<>> for text it rejects
EntryInputs ==
    { <<"Margherita", <<6>> >>, <<"Margherita", <<0>> >>,
      <<"Margherita", <<>> >>, <<UnknownItem, <<1>> >> }

\* the entries typed in one start_order
StartOrderInputs ==
    { <<>> } \cup { <<e>> : e \in EntryInputs }
        \cup { << <<"Margherita", <<2>> >>, <<"Margherita", <<4>> >> >> }

\* the draws of a fake_customers / fake_orders command whose count is 0 or 1,
\* S being what one round can draw
FakeDraws(S) == { <<>> } \cup { <<x>> : x \in S }

\* items mappings an API caller may pass to add_order directly
ItemsInputs ==
    { <<>>, ("Margherita" :> 6), ("Margherita" :> 0), (UnknownItem :> 1) }

---------------------------------------------------------------------------
(* database.py: Customer, Order *)

\* Customer.__init__
Customer(name, phone) ==
    [name |-> name, phone |-> phone, loyalty_member |-> FALSE]

\* Customer.set_loyalty_member
set_loyalty_member(self, is_member) ==
    [self EXCEPT !.loyalty_member = is_member]

\* a reference to the customer object all_customers holds under phone
StoreRef(phone) == [phone |-> phone, inStore |-> TRUE]

\* a reference to a Customer object built by the caller and never added
DetachedRef(phone) == [phone |-> phone, inStore |-> FALSE]

\* Order.__init__ : t is time.time(), id is random.randint(1000, 9999)
Order(customer, items, t, id) ==
    [customer |-> customer,
     time |-> t,
     completed_time |-> None,
     status |-> PENDING,
     items |-> items,
     is_home_delivery |-> FALSE,
     id |-> id]

\* mutant of mark_in_progress: a DONE or CANCELLED order is left as it is
mark_in_progress_guarded(self) ==
    IF self.status \in {DONE, CANCELLED} THEN self
    ELSE [self EXCEPT !.status = IN_PROGRESS]

\* Order.mark_in_progress
mark_in_progress(self) == [self EXCEPT !.status = IN_PROGRESS]

\* Order.mark_cancelled
mark_cancelled(self) == [self EXCEPT !.status = CANCELLED]

\* mutant of mark_done: the completed time is not stamped
mark_done_unstamped(self, t) == [self EXCEPT !.status = DONE]

\* Order.mark_done : t is time.time()
mark_done(self, t) ==
    [self EXCEPT !.status = DONE, !.completed_time = Some(t)]

\* Order.toJSON
Order_toJSON(self) ==
    [customer |-> self.customer.phone,
     time |-> self.time,
     status |-> StatusName(self.status),
     items |-> self.items,
     is_home_delivery |-> self.is_home_delivery,
     id |-> self.id,
     completed_time |-> self.completed_time]

\* mutant of Order.fromJSON: completed_time is not read back
Order_fromJSON_unstamped(self, j) ==
    [self EXCEPT !.time = j.time,
                 !.status = StatusOfName(j.status),
                 !.is_home_delivery = j.is_home_delivery,
                 !.id = j.id]

\* Order.fromJSON : customer and items are left as the constructor set them
Order_fromJSON(self, j) ==
    [self EXCEPT !.time = j.time,
                 !.status = StatusOfName(j.status),
                 !.is_home_delivery = j.is_home_delivery,
                 !.id = j.id,
                 !.completed_time = j.completed_time]

---------------------------------------------------------------------------
(* database.py: OrderCost, Order.cost.  The amounts of an OrderCost are     *)
(* kept in hundredths of a cent, in which every product the code forms      *)
(* (5% of a raw cost, 10% of a subtotal) is a whole number.                 *)

\* an amount given in cents, in hundredths of a cent
Fixed(cents) == cents * 100

\* OrderCost.__init__
OrderCost ==
    [raw_cost |-> 0, discount |-> 0, delivery_cost |-> 0,
     cost_before_gst |-> 0, gst |-> 0, cost_after_gst |-> 0]

\* OrderCost.add_items
add_items(self, item_name, quantity) ==
    [self EXCEPT !.raw_cost = @ + Fixed(all_items[item_name]) * quantity]

\* mutant of add_deliver_cost: the fee grows with the order
add_deliver_cost_by_size(self) ==
    [self EXCEPT !.delivery_cost = Fixed(800) + self.raw_cost \div 100]

\* OrderCost.add_deliver_cost
add_deliver_cost(self) == [self EXCEPT !.delivery_cost = Fixed(800)]

\* OrderCost.add_discount
add_discount(self) == [self EXCEPT !.discount = (self.raw_cost * 5) \div 100]

\* mutant of can_discount_apply: a raw cost of exactly 100 counts
can_discount_apply_from_100(self) == self.raw_cost >= Fixed(10000)

\* OrderCost.can_discount_apply
can_discount_apply(self) == self.raw_cost > Fixed(10000)

\* OrderCost.calculate_pre_gst_cost
calculate_pre_gst_cost(self) ==
    [self EXCEPT !.cost_before_gst =
                     self.raw_cost - self.discount + self.delivery_cost]

\* mutant of calculate_gst: the tax is taken on the raw cost
calculate_gst_on_raw(self) ==
    LET c == calculate_pre_gst_cost(self)
    IN [c EXCEPT !.gst = (c.raw_cost * 10) \div 100]

\* OrderCost.calculate_gst
calculate_gst(self) ==
    LET c == calculate_pre_gst_cost(self)
    IN [c EXCEPT !.gst = (c.cost_before_gst * 10) \div 100]

\* OrderCost.calculate_total_cost
calculate_total_cost(self) ==
    LET c == calculate_gst(self)
    IN [c EXCEPT !.cost_after_gst = c.cost_before_gst + c.gst]

\* OrderCost.get_total_cost : the OrderCost afterwards
get_total_cost(self) == calculate_total_cost(self)

\* mutant of is_eligible_for_discount: the flag the customer was built with
is_eligible_for_discount_as_built(self) == Customer(self.name, self.phone).loyalty_member

\* Customer.is_eligible_for_discount
is_eligible_for_discount(self) == self.loyalty_member

\* the loop of Order.cost over self.items.items(), names being the keys left
RECURSIVE CostItems(_, _, _)
CostItems(costing, items, names) ==
    IF names = {} THEN costing
    ELSE LET item == CHOOSE n \in names : TRUE
         IN CostItems(add_items(costing, item, items[item]), items,
                      names \ {item})

\* the OrderCost that Order.cost builds; customer is the object self.customer
Costing(self, customer) ==
    LET added == CostItems(OrderCost, self.items, DOMAIN self.items)
        discounted ==
            IF is_eligible_for_discount(customer) /\ can_discount_apply(added)
            THEN add_discount(added) ELSE added
        delivered ==
            IF self.is_home_delivery THEN add_deliver_cost(discounted)
            ELSE discounted
    IN get_total_cost(delivered)

\* all_items[item_name] raises KeyError for a name the catalog does not have
UnknownItems(items) == { n \in DOMAIN items : n \notin DOMAIN all_items }

\* mutant of cost: the items are taken out of the order as they are added up
cost_consuming(self, customer) ==
    IF UnknownItems(self.items) # {}
    THEN [costing |-> OrderCost, raised |-> "KeyError", order |-> self]
    ELSE [costing |-> Costing(self, customer), raised |-> "",
          order |-> [self EXCEPT !.items = <<>>]]

\* Order.cost : the OrderCost returned, the exception raised instead ("" for
\* none) and the order afterwards
cost(self, customer) ==
    IF UnknownItems(self.items) # {}
    THEN [costing |-> OrderCost, raised |-> "KeyError", order |-> self]
    ELSE [costing |-> Costing(self, customer), raised |-> "", order |-> self]

---------------------------------------------------------------------------
(* time.localtime, time.mktime: the clock counts ticks, DayLen of them to   *)
(* a day and YearLen days to a year.                                        *)

DayLen == 2
YearLen == 2

\* time.localtime(t) : tm_year and tm_yday (1 for the first day of a year)
localtime(t) ==
    [tm_year |-> t \div (DayLen * YearLen),
     tm_yday |-> ((t \div DayLen) % YearLen) + 1]

\* time.mktime of a date <<year, day of the year>> : its midnight
mktime(date) == ((date[1] * YearLen) + (date[2] - 1)) * DayLen

---------------------------------------------------------------------------
(* database.py: FileSystemStoreData *)

\* FileSystemStoreData.__init__
EmptyData == [all_customers |-> <<>>, active_orders |-> <<>>]

\* FileSystemStoreData.toJSON
Data_toJSON(d) ==
    [all_customers |->
        [k \in DOMAIN d.all_customers |->
            [name |-> d.all_customers[k].name,
             phone |-> d.all_customers[k].phone,
             loyalty_member |-> d.all_customers[k].loyalty_member]],
     active_orders |->
        [i \in 1 .. Len(d.active_orders) |-> Order_toJSON(d.active_orders[i])]]

\* the customers FileSystemStoreData.fromJSON builds
Customers_fromJSON(j) ==
    [k \in DOMAIN j.all_customers |->
        Customer(j.all_customers[k].name, j.all_customers[k].phone)]

\* FileSystemStoreData.fromJSON : t and rid are the time and the random id the
\* Order constructor takes before Order.fromJSON overwrites them.  A KeyError
\* (an order whose customer phone is no key of all_customers) ends the load.
Data_fromJSON(self, j, t, rid) ==
    LET custs == Customers_fromJSON(j)
        bad == \E i \in 1 .. Len(j.active_orders) :
                   j.active_orders[i].customer \notin DOMAIN custs
        loaded == [i \in 1 .. Len(j.active_orders) |->
                      Order_fromJSON(
                          Order(StoreRef(j.active_orders[i].customer),
                                j.active_orders[i].items, t, rid),
                          j.active_orders[i])]
    IN IF bad
       THEN [data |-> self, raised |-> "KeyError"]
       ELSE [data |-> [all_customers |-> custs,
                       active_orders |-> self.active_orders \o loaded],
             raised |-> ""]

---------------------------------------------------------------------------
(* The file pizza.json: absent, or the text last written.  written is       *)
(* "complete" for the whole text of json.dumps, "empty" for a file that     *)
(* open(path, "w") truncated and nothing was flushed to, "partial" for a    *)
(* proper prefix of the text.  json is what json.loads makes of a complete  *)
(* text; no reader gets anything out of an empty or partial one, so json is *)
(* kept only for complete texts.                                            *)

NoFile == [exists |-> FALSE, written |-> "empty", json |-> Data_toJSON(EmptyData)]

\* json.dumps and the write of the whole text
dumps(j) == [exists |-> TRUE, written |-> "complete", json |-> j]

\* what a save of f leaves when the process dies inside it
Torn(f) ==
    { [exists |-> TRUE, written |-> w, json |-> Data_toJSON(EmptyData)] :
          w \in {"empty", "partial"} }

\* whether json.loads accepts the text
Loadable(f) == f.written = "complete"

---------------------------------------------------------------------------
(* database.py: FileSystemStore.  A store value `self` is the object's data *)
(* together with the file it writes; saved records that save() ran and      *)
(* raised the exception that ended the call ("" for none).                  *)

Store(d, f) == [data |-> d, file |-> f, saved |-> FALSE, raised |-> ""]

\* d[k] = v on a Python dict
DictSet(d, k, v) == (k :> v) @@ d

\* FileSystemStore.save
save(self) ==
    [self EXCEPT !.file = dumps(Data_toJSON(self.data)), !.saved = TRUE]

\* FileSystemStore.load
load(self, t, rid) ==
    IF ~Loadable(self.file)
    THEN [self EXCEPT !.raised = "JSONDecodeError"]
    ELSE LET r == Data_fromJSON(self.data, self.file.json, t, rid)
         IN [self EXCEPT !.data = r.data, !.raised = r.raised]

\* FileSystemStore.__init__
FileSystemStore(f, t, rid) ==
    IF f.exists THEN load(Store(EmptyData, f), t, rid) ELSE Store(EmptyData, f)

\* a Python list handed to a caller: its elements, and whether it is the list
\* object data.active_orders itself (own) or a new list with those elements
ListCopy(elems) == [elems |-> elems, own |-> FALSE]
ListOwn(elems) == [elems |-> elems, own |-> TRUE]

\* mutant of get_all_time_orders: the store's own list is returned
get_all_time_orders_own(self) == ListOwn(self.data.active_orders)

\* FileSystemStore.get_all_time_orders : list(...) makes a new list
get_all_time_orders(self) == ListCopy(self.data.active_orders)

\* FileSystemStore.get_date_orders : the list comprehension makes a new list
get_date_orders(self, t) ==
    LET day == localtime(t).tm_yday
        onDay(order) == localtime(order.time).tm_yday = day
    IN ListCopy(SelectSeq(self.data.active_orders, onDay))

\* FileSystemStore.add_order
add_order(self, customer, items, is_home_delivery, t, id) ==
    LET order == [Order(customer, items, t, id)
                     EXCEPT !.is_home_delivery = is_home_delivery]
    IN save([self EXCEPT !.data.active_orders = Append(@, order)])

\* FileSystemStore.get_customer : None or Some(customer)
get_customer(self, phone) ==
    IF phone \in DOMAIN self.data.all_customers
    THEN Some(self.data.all_customers[phone])
    ELSE None

\* FileSystemStore.customer_phones
customer_phones(self) == DOMAIN self.data.all_customers

\* mutant of add_customer: no check for a phone that is already present
add_customer_replacing(self, customer) ==
    save([self EXCEPT
             !.data.all_customers = DictSet(@, customer.phone, customer)])

\* FileSystemStore.add_customer
add_customer(self, customer) ==
    IF customer.phone \in DOMAIN self.data.all_customers
    THEN [self EXCEPT !.raised = "DataError"]
    ELSE save([self EXCEPT
                  !.data.all_customers = DictSet(@, customer.phone, customer)])

\* mutant of get_or_add_customer: the customer is built and stored even when
\* the phone is already present
get_or_add_customer_replacing(self, phone, name) ==
    save([self EXCEPT
             !.data.all_customers = DictSet(@, phone, Customer(name, phone))])

\* FileSystemStore.get_or_add_customer : the store afterwards
get_or_add_customer(self, phone, name) ==
    IF phone \in DOMAIN self.data.all_customers
    THEN self
    ELSE save([self EXCEPT
                  !.data.all_customers = DictSet(@, phone, Customer(name, phone))])

\* the customer FileSystemStore.get_or_add_customer returns
get_or_add_customer_ret(self, phone, name) ==
    get_or_add_customer(self, phone, name).data.all_customers[phone]

\* FileSystemStore.set_customer_loyalty
set_customer_loyalty(self, phone, is_member) ==
    IF phone \in DOMAIN self.data.all_customers
    THEN save([self EXCEPT !.data.all_customers[phone] =
                              set_loyalty_member(@, is_member)])
    ELSE self

\* mutant of clear_orders: the customers are cleared as well
clear_orders_and_customers(self) ==
    save([self EXCEPT !.data.active_orders = <<>>, !.data.all_customers = <<>>])

\* FileSystemStore.clear_orders
clear_orders(self) == save([self EXCEPT !.data.active_orders = <<>>])

---------------------------------------------------------------------------
(* cli.py: what the commands compute.  Each yields the store afterwards and *)
(* the message the loop prints.                                             *)

Result(self, msg) == [store |-> self, message |-> msg, output |-> <<>>]

\* a command that also prints or returns a structured text
Printed(self, msg, out) == [store |-> self, message |-> msg, output |-> <<out>>]

\* the Customer object an order's customer attribute refers to; an object the
\* caller built itself is as Customer.__init__ made it
CustomerOf(self, ref) ==
    IF ref.inStore THEN self.data.all_customers[ref.phone]
    ELSE Customer("", ref.phone)

\* next((order for order in get_all_time_orders() if order.id == order_id), None)
\* as an index into the list, 0 for None
FindOrder(self, order_id) ==
    LET orders == get_all_time_orders(self).elems
        hits == { i \in 1 .. Len(orders) : orders[i].id = order_id }
    IN IF hits = {} THEN 0 ELSE CHOOSE i \in hits : \A k \in hits : i <= k

\* MarkInProgressCommand.execute
MarkInProgressCommand_execute(self, order_id) ==
    LET i == FindOrder(self, order_id)
    IN IF i = 0
       THEN Result(self, "Order not found")
       ELSE Result([self EXCEPT !.data.active_orders[i] = mark_in_progress(@)],
                   "Marked order as in progress")

\* MarkCancelledCommand.execute
MarkCancelledCommand_execute(self, order_id) ==
    LET i == FindOrder(self, order_id)
    IN IF i = 0
       THEN Result(self, "Order not found")
       ELSE Result([self EXCEPT !.data.active_orders[i] = mark_cancelled(@)],
                   "Marked order as cancelled")

\* MarkDoneCommand.execute
MarkDoneCommand_execute(self, order_id, t) ==
    LET i == FindOrder(self, order_id)
    IN IF i = 0
       THEN Result(self, "Order not found")
       ELSE Result([self EXCEPT !.data.active_orders[i] = mark_done(@, t)],
                   "Marked order as completed")

\* AddCustomerCommand.execute
AddCustomerCommand_execute(self, phone, name) ==
    LET r == add_customer(self, Customer(name, phone))
    IN IF r.raised = "DataError"
       THEN Result([r EXCEPT !.raised = ""], "Error adding customer")
       ELSE Result(r, "Added customer")

\* SetCustomerLoyaltyCommand.execute
SetCustomerLoyaltyCommand_execute(self, phone, loyalty_status) ==
    IF get_customer(self, phone) = None
    THEN Result(self, "Customer not found")
    ELSE Result([self EXCEPT !.data.all_customers[phone].loyalty_member =
                                 loyalty_status],
                "Set loyalty status")

\* the prompt loop of StartOrderCommand.execute over the typed entries
RECURSIVE StartOrderItems(_, _)
StartOrderItems(entries, items) ==
    IF entries = <<>> THEN items
    ELSE LET item == Head(entries)[1]
             typed == Head(entries)[2]
             rest == Tail(entries)
         IN IF item \notin DOMAIN all_items THEN StartOrderItems(rest, items)
            ELSE IF typed = <<>> THEN StartOrderItems(rest, items)
            ELSE IF typed[1] < 1 THEN StartOrderItems(rest, items)
            ELSE IF item \notin DOMAIN items
                 THEN StartOrderItems(rest, DictSet(items, item, typed[1]))
                 ELSE StartOrderItems(rest,
                          [items EXCEPT ![item] = @ + typed[1]])

\* StartOrderCommand.execute
StartOrderCommand_execute(self, phone, entries, wants_delivery, t, id) ==
    IF get_customer(self, phone) = None
    THEN Result(self, "Customer not found")
    ELSE Result(add_order(self, StoreRef(phone),
                          StartOrderItems(entries, <<>>), wants_delivery, t, id),
                "Order details")

\* FakeCustomersCommand.execute : draws[k] is the <<name, phone>> of the k-th
\* fake_customer()
RECURSIVE FakeCustomers(_, _)
FakeCustomers(self, draws) ==
    IF draws = <<>> THEN self
    ELSE FakeCustomers(
             get_or_add_customer(self, Head(draws)[2], Head(draws)[1]),
             Tail(draws))

FakeCustomersCommand_execute(self, draws) ==
    Result(FakeCustomers(self, draws),
           IF draws = <<>> THEN "Added 0 customers" ELSE "Added 1 customers")

\* FakeOrdersCommand.execute : draws[k] is <<items, home_delivery, order_time,
\* phone chosen, id>> of the k-th round; random.choice of an empty list raises
\* IndexError, which the loop reports as an unexpected error
RECURSIVE FakeOrders(_, _, _)
FakeOrders(self, draws, t) ==
    IF draws = <<>> THEN self
    ELSE LET d == Head(draws)
             added == add_order(self, StoreRef(d[4]), d[1], d[2], t, d[5])
             n == Len(added.data.active_orders)
         IN FakeOrders([added EXCEPT !.data.active_orders[n].time = d[3]],
                       Tail(draws), t)

FakeOrdersCommand_execute(self, draws, t) ==
    IF draws # <<>> /\ customer_phones(self) = {}
    THEN Result(self, "Unexpected error from command")
    ELSE Result(FakeOrders(self, draws, t),
                IF draws = <<>> THEN "Added 0 orders" ELSE "Added 1 orders")

\* Order.small_repr : the fields the line shows
small_repr(self, customer) ==
    [id |-> self.id, time |-> self.time,
     customer |-> <<customer.name, customer.phone>>,
     items |-> self.items, status |-> StatusName(self.status)]

\* Order.full_repr : the order afterwards, the exception raised ("" for none)
\* and what the lines show; a line the code leaves out shows None
full_repr(self, customer) ==
    LET c == cost(self, customer)
        costs == c.costing
    IN [order |-> c.order,
        raised |-> c.raised,
        text |->
            [id |-> self.id,
             customer |-> <<customer.name, customer.phone>>,
             time |-> self.time,
             items |-> self.items,
             status |-> StatusName(self.status),
             home_delivery |-> self.is_home_delivery,
             completed |-> IF self.status = DONE THEN self.completed_time
                           ELSE None,
             gross |-> costs.raw_cost,
             discount |-> IF costs.discount > 0 THEN Some(costs.discount)
                          ELSE None,
             delivery |-> IF costs.delivery_cost > 0
                          THEN Some(costs.delivery_cost) ELSE None,
             gst |-> costs.gst,
             total |-> costs.cost_after_gst]]

\* OrderInfoCommand.execute
OrderInfoCommand_execute(self, order_id) ==
    LET i == FindOrder(self, order_id)
        order == self.data.active_orders[i]
        r == full_repr(order, CustomerOf(self, order.customer))
    IN IF i = 0 THEN Result(self, "Order not found")
       ELSE IF r.raised # ""
       THEN Result(self, "Unexpected error from command")
       ELSE Printed([self EXCEPT !.data.active_orders[i] = r.order],
                    "Order", r.text)

\* the key view_orders sorts by: (-x.status.value, x.time)
SortsBefore(a, b) ==
    \/ a.status > b.status
    \/ a.status = b.status /\ a.time < b.time

\* list.sort(key=...), which is stable: x goes behind every element that
\* does not sort after it
RECURSIVE SortInsert(_, _)
SortInsert(x, sorted) ==
    IF sorted = <<>> THEN <<x>>
    ELSE IF SortsBefore(x, Head(sorted)) THEN <<x>> \o sorted
    ELSE <<Head(sorted)>> \o SortInsert(x, Tail(sorted))

RECURSIVE Sort(_)
Sort(orders) ==
    IF orders = <<>> THEN <<>>
    ELSE SortInsert(orders[Len(orders)], Sort(SubSeq(orders, 1, Len(orders) - 1)))

\* ViewActiveOrdersCommand.execute : dflt is the default of the argument t
\* of get_date_orders.  Sorting the list the store handed out sorts the
\* store's list when the two are one object.
ViewActiveOrdersCommand_execute(self, all_time, dflt) ==
    LET orders == IF all_time THEN get_all_time_orders(self)
                  ELSE get_date_orders(self, dflt)
        sorted == Sort(orders.elems)
        isDone(order) == order.status = DONE
        isActive(order) == order.status # DONE
        line(order) == small_repr(order, CustomerOf(self, order.customer))
        lines(l) == [k \in 1 .. Len(l) |-> line(l[k])]
        after == IF orders.own
                 THEN [self EXCEPT !.data.active_orders = sorted] ELSE self
    IN IF Len(orders.elems) = 0 THEN Result(self, "No orders found")
       ELSE Printed(after,
                    IF all_time THEN "All time orders:" ELSE "Today's orders:",
                    [active |-> lines(SelectSeq(sorted, isActive)),
                     completed |-> lines(SelectSeq(sorted, isDone))])

\* the loop of DailySummaryCommand.execute over the orders of the day: the
\* totals so far, and the exception Order.cost raised ("" for none)
RECURSIVE SummaryLoop(_, _, _)
SummaryLoop(self, orders, acc) ==
    IF orders = <<>> \/ acc.raised # "" THEN acc
    ELSE LET order == Head(orders)
             c == cost(order, CustomerOf(self, order.customer))
             sold == [n \in DOMAIN acc.items_sold \cup DOMAIN order.items |->
                         (IF n \in DOMAIN acc.items_sold
                          THEN acc.items_sold[n] ELSE 0)
                         + (IF n \in DOMAIN order.items
                            THEN order.items[n] ELSE 0)]
         IN IF order.status # DONE
            THEN SummaryLoop(self, Tail(orders), acc)
            ELSE IF c.raised # ""
            THEN [acc EXCEPT !.raised = c.raised]
            ELSE SummaryLoop(self, Tail(orders),
                     [total_orders |-> acc.total_orders + 1,
                      total_sales |-> acc.total_sales + c.costing.cost_before_gst,
                      total_delivery_sales |->
                          acc.total_delivery_sales
                          + (IF order.is_home_delivery
                             THEN c.costing.cost_before_gst ELSE 0),
                      items_sold |-> sold,
                      raised |-> ""])

\* DailySummaryCommand.execute : args is <<>> or <<text>>, the text being the
\* date <<year, day>> it spells, or <<>> when strptime rejects it; t is
\* time.time()
DailySummaryCommand_execute(self, args, t) ==
    LET date == IF args = <<>> THEN t ELSE mktime(args[1])
        orders == get_date_orders(self, date).elems
        sums == SummaryLoop(self, orders,
                    [total_orders |-> 0, total_sales |-> 0,
                     total_delivery_sales |-> 0, items_sold |-> <<>>,
                     raised |-> ""])
    IN IF args # <<>> /\ args[1] = <<>>
       THEN Result(self, "Invalid date format, use YYYY-MM-DD")
       ELSE IF Len(orders) = 0 THEN Result(self, "No orders on")
       ELSE IF sums.raised # ""
       THEN Result(self, "Unexpected error from command")
       ELSE Printed(self, "Summary for",
                    [date |-> <<localtime(date).tm_year, localtime(date).tm_yday>>,
                     total_orders |-> sums.total_orders,
                     total_sales |-> sums.total_sales,
                     total_delivery_sales |-> sums.total_delivery_sales,
                     items_sold |-> sums.items_sold])

---------------------------------------------------------------------------
(* The running program: main.py and the loop of cli.py *)

\* the store object main() holds (output: what the last command printed
\* besides its message; default_t: the default of get_date_orders' t)
Self == Store(data, file)

\* the loop waits for a command line
Prompt == pc = "prompt" /\ steps < MaxSteps

\* main() before the loop: the first run finds no pizza.json
Init ==
    /\ data = EmptyData
    /\ file = NoFile
    /\ now = 0
    /\ steps = 0
    /\ message = "Welcome"
    /\ pc = "prompt"
    /\ exited_once = FALSE
    /\ output = <<>>
    /\ default_t = 0

\* a command returns to the prompt, or the process dies inside a save() the
\* command made and leaves the file torn
Commit(r) ==
    \/ /\ data' = r.store.data
       /\ file' = r.store.file
       /\ message' = r.message
       /\ output' = r.output
       /\ pc' = "prompt"
       /\ exited_once' = FALSE
       /\ steps' = steps + 1
       /\ UNCHANGED <<now, default_t>>
    \/ /\ r.store.saved
       /\ \E f \in Torn(r.store.file) : file' = f
       /\ data' = EmptyData
       /\ message' = "Killed"
       /\ output' = <<>>
       /\ pc' = "crashed"
       /\ exited_once' = FALSE
       /\ steps' = steps + 1
       /\ UNCHANGED <<now, default_t>>

\* mutant of Leave: main() returns without the save
Leave_unsaved ==
    /\ data' = EmptyData
    /\ exited_once' = FALSE
    /\ output' = <<>>
    /\ steps' = steps + 1
    /\ pc' = "exited"
    /\ message' = "Exited"
    /\ UNCHANGED <<file, now, default_t>>

\* the loop ends and main() saves; the process may die inside that save()
Leave ==
    LET r == save(Self)
    IN /\ data' = EmptyData
       /\ exited_once' = FALSE
       /\ output' = <<>>
       /\ steps' = steps + 1
       /\ UNCHANGED <<now, default_t>>
       /\ \/ file' = r.file /\ pc' = "exited" /\ message' = "Exited"
          \/ \E f \in Torn(r.file) :
                 file' = f /\ pc' = "crashed" /\ message' = "Killed"

\* time.time() advances
Tick ==
    /\ steps < MaxSteps
    /\ now' = now + 1
    /\ steps' = steps + 1
    /\ UNCHANGED <<data, file, message, pc, exited_once, output, default_t>>

AddCustomerCommand ==
    /\ Prompt
    /\ \E phone \in Phones, name \in Names :
           Commit(AddCustomerCommand_execute(Self, phone, name))

SetCustomerLoyaltyCommand ==
    /\ Prompt
    /\ \E phone \in Phones, loyalty_status \in BOOLEAN :
           Commit(SetCustomerLoyaltyCommand_execute(Self, phone, loyalty_status))

StartOrderCommand ==
    /\ Prompt
    /\ Len(data.active_orders) < MaxOrders
    /\ \E phone \in Phones, entries \in StartOrderInputs,
          wants_delivery \in BOOLEAN, id \in Ids :
           Commit(StartOrderCommand_execute(Self, phone, entries,
                                            wants_delivery, now, id))

\* order ids a user may type: the ids orders can have and one none has
IdArgs == Ids \cup {IdLo + 2}

MarkInProgressCommand ==
    /\ Prompt
    /\ \E order_id \in IdArgs :
           Commit(MarkInProgressCommand_execute(Self, order_id))

MarkCancelledCommand ==
    /\ Prompt
    /\ \E order_id \in IdArgs :
           Commit(MarkCancelledCommand_execute(Self, order_id))

MarkDoneCommand ==
    /\ Prompt
    /\ \E order_id \in IdArgs :
           Commit(MarkDoneCommand_execute(Self, order_id, now))

FakeCustomersCommand ==
    /\ Prompt
    /\ \E draws \in FakeDraws(Names \X Phones) :
           Commit(FakeCustomersCommand_execute(Self, draws))

\* what fake_order() may return for the items
FakeItems == { ("BBQ Meatlovers" :> 5) }

FakeOrdersCommand ==
    /\ Prompt
    /\ LET phones == IF customer_phones(Self) = {} THEN Phones
                     ELSE customer_phones(Self)
       IN \E draws \in FakeDraws(FakeItems \X BOOLEAN \X (0 .. now)
                                              \X phones \X Ids) :
              /\ Len(data.active_orders) + Len(draws) <= MaxOrders
              /\ Commit(FakeOrdersCommand_execute(Self, draws, now))

OrderInfoCommand ==
    /\ Prompt
    /\ \E order_id \in IdArgs :
           Commit(OrderInfoCommand_execute(Self, order_id))

ViewActiveOrdersCommand ==
    /\ Prompt
    /\ \E all_time \in BOOLEAN :
           Commit(ViewActiveOrdersCommand_execute(Self, all_time, default_t))

\* the dates a user may spell: the first day of this year and of the next
Dates == { <<0, 1>>, <<1, 1>> }

\* the arguments of daily_summary: none, a text that is no date, a date
DateArgs == { <<>>, << <<>> >> } \cup { <<d>> : d \in Dates }

DailySummaryCommand ==
    /\ Prompt
    /\ \E args \in DateArgs :
           Commit(DailySummaryCommand_execute(Self, args, now))

\* the calling program is alive and makes another call
Calling == pc = "prompt" /\ steps < MaxCalls

\* a caller of the store's API calls add_order itself, with a customer it got
\* from get_customer or with a Customer object it built
AddOrder ==
    /\ Calling
    /\ Len(data.active_orders) < MaxOrders
    /\ \E customer \in { StoreRef(p) : p \in customer_phones(Self) }
                           \cup { DetachedRef(p) : p \in Phones },
          items \in ItemsInputs, is_home_delivery \in BOOLEAN, id \in Ids :
           Commit(Result(add_order(Self, customer, items, is_home_delivery,
                                   now, id),
                         "add_order returned"))

\* a caller passes add_customer a Customer object, as fake_customer() builds it
AddCustomer ==
    /\ Calling
    /\ \E phone \in Phones, name \in Names, is_member \in BOOLEAN :
           LET r == add_customer(Self,
                        set_loyalty_member(Customer(name, phone), is_member))
           IN IF r.raised = "DataError"
              THEN Commit(Result([r EXCEPT !.raised = ""], "DataError"))
              ELSE Commit(Result(r, "add_customer returned"))

GetOrAddCustomer ==
    /\ Calling
    /\ \E phone \in Phones, name \in Names :
           Commit(Result(get_or_add_customer(Self, phone, name),
                         "get_or_add_customer returned"))

SetCustomerLoyalty ==
    /\ Calling
    /\ \E phone \in Phones, is_member \in BOOLEAN :
           Commit(Result(set_customer_loyalty(Self, phone, is_member),
                         IF get_customer(Self, phone) = None
                         THEN "Customer not found"
                         ELSE "set_customer_loyalty returned"))

ClearOrders ==
    /\ Calling
    /\ Commit(Result(clear_orders(Self), "clear_orders returned"))

\* the exit command
ExitCommand ==
    /\ Prompt
    /\ Leave

\* Ctrl-C at the prompt: the second in a row ends the loop
KeyboardInterrupt ==
    /\ Prompt
    /\ IF exited_once
       THEN Leave
       ELSE /\ exited_once' = TRUE
            /\ message' = "Press Ctrl+C again to exit"
            /\ output' = <<>>
            /\ steps' = steps + 1
            /\ UNCHANGED <<data, file, now, pc, default_t>>

\* the process is killed while it waits at the prompt
Kill ==
    /\ pc = "prompt"
    /\ pc' = "crashed"
    /\ data' = EmptyData
    /\ message' = "Killed"
    /\ output' = <<>>
    /\ exited_once' = FALSE
    /\ UNCHANGED <<file, now, steps, default_t>>

\* main() is run again: the import of database.py binds the default of
\* get_date_orders' argument t to time.time(), then FileSystemStore("pizza.json")
\* and the loop
Restart ==
    /\ pc \in {"exited", "crashed"}
    /\ \E rid \in Ids :
           LET r == FileSystemStore(file, now, rid)
           IN IF r.raised # ""
              THEN /\ pc' = "crashed"
                   /\ message' = r.raised
                   /\ default_t' = now
                   /\ UNCHANGED <<data, file, now, exited_once, steps, output>>
              ELSE /\ pc' = "prompt"
                   /\ data' = r.data
                   /\ message' = "Welcome"
                   /\ default_t' = now
                   /\ UNCHANGED <<file, now, exited_once, steps, output>>

\* main.py: the shell, its user and the machine it runs on
Next ==
    \/ Tick
    \/ AddCustomerCommand
    \/ SetCustomerLoyaltyCommand
    \/ StartOrderCommand
    \/ MarkInProgressCommand
    \/ MarkCancelledCommand
    \/ MarkDoneCommand
    \/ FakeCustomersCommand
    \/ FakeOrdersCommand
    \/ OrderInfoCommand
    \/ ViewActiveOrdersCommand
    \/ DailySummaryCommand
    \/ ExitCommand
    \/ KeyboardInterrupt
    \/ Kill
    \/ Restart

Spec == Init /\ [][Next]_vars

\* time.time() advances under a program that calls the store itself
TickStore ==
    /\ steps < MaxCalls
    /\ now' = now + 1
    /\ steps' = steps + 1
    /\ UNCHANGED <<data, file, message, pc, exited_once, output, default_t>>

\* a program that calls the store of database.py itself
NextStore ==
    \/ TickStore
    \/ AddOrder
    \/ AddCustomer
    \/ GetOrAddCustomer
    \/ SetCustomerLoyalty
    \/ ClearOrders
    \/ Kill
    \/ Restart

SpecStore == Init /\ [][NextStore]_vars

---------------------------------------------------------------------------
(* The shell with the orders of a working day in the store: the commands    *)
(* that took them have run, the ones that look at them are to come.         *)

\* the store a command left, as the next command finds it
Then(r) == Store(r.store.data, r.store.file)

\* what was typed into start_order for the orders of the day: 111.00, exactly
\* 100.00 and 18.50 worth of pizza
DayEntries ==
    { << <<"Margherita", <<6>> >> >>,
      << <<"Pepperoni", <<3>> >>, <<"Margherita", <<2>> >> >>,
      << <<"Margherita", <<1>> >> >> }

\* the status command run on an order after it was started, "" for none
Mark(self, command, order_id, t) ==
    CASE command = "mark_in_progress" ->
             Then(MarkInProgressCommand_execute(self, order_id))
      [] command = "mark_cancelled" ->
             Then(MarkCancelledCommand_execute(self, order_id))
      [] command = "mark_done" ->
             Then(MarkDoneCommand_execute(self, order_id, t))
      [] OTHER -> self

\* the message the last of those commands left on the screen
MarkMessage(command) ==
    CASE command = "mark_in_progress" -> "Marked order as in progress"
      [] command = "mark_cancelled" -> "Marked order as cancelled"
      [] command = "mark_done" -> "Marked order as completed"
      [] OTHER -> "Order details"

\* add_customer and set_loyalty for both phones, then start_order for phone1
\* at tick 0 and the status command mark1 on the order
FirstOrder(member1, member2, phone1, entries1, delivery1, mark1) ==
    LET a == Then(AddCustomerCommand_execute(Store(EmptyData, NoFile),
                                             "0401", "Ann"))
        b == Then(AddCustomerCommand_execute(a, "0402", "Bob"))
        c == Then(SetCustomerLoyaltyCommand_execute(b, "0401", member1))
        d == Then(SetCustomerLoyaltyCommand_execute(c, "0402", member2))
        e == Then(StartOrderCommand_execute(d, phone1, entries1, delivery1,
                                            0, IdLo))
    IN Mark(e, mark1, IdLo, 0)

\* one more start_order, for phone2 at tick t2, and the status command mark2
SecondOrder(self, phone2, t2, mark2) ==
    LET e == Then(StartOrderCommand_execute(self, phone2,
                      << <<"Margherita", <<6>> >> >>, FALSE, t2, IdLo + 1))
    IN Mark(e, mark2, IdLo + 1, t2)

\* the first order was taken at tick 0, when the process started; a second
\* one, if any, at tick 0 too or on the next day
InitView ==
    /\ pc = "prompt"
    /\ exited_once = FALSE
    /\ output = <<>>
    /\ default_t = 0
    /\ steps = MaxSteps - MaxViews
    /\ \E member1 \in BOOLEAN, member2 \in BOOLEAN, phone1 \in Phones,
          entries1 \in DayEntries, delivery1 \in BOOLEAN,
          mark1 \in {"", "mark_done"} :
           LET first == FirstOrder(member1, member2, phone1, entries1,
                                   delivery1, mark1)
           IN \/ /\ data = first.data
                 /\ file = first.file
                 /\ message = MarkMessage(mark1)
                 /\ now = 0
              \/ \E phone2 \in Phones, t2 \in {0, DayLen},
                    mark2 \in {"", "mark_in_progress", "mark_done"} :
                     LET second == SecondOrder(first, phone2, t2, mark2)
                     IN /\ data = second.data
                        /\ file = second.file
                        /\ message = MarkMessage(mark2)
                        /\ now = t2

NextView ==
    \/ Tick
    \/ SetCustomerLoyaltyCommand
    \/ OrderInfoCommand
    \/ ViewActiveOrdersCommand
    \/ DailySummaryCommand

SpecView == InitView /\ [][NextView]_vars

---------------------------------------------------------------------------
(* Claims *)

\* the orders and the customers in memory
Orders == data.active_orders
Customers == data.all_customers

\* C1: write-through.  Whenever the shell waits for the next command, the
\* file holds the serialization of the customers and orders in memory (and
\* while there is no file yet, memory holds nothing).
C1_WriteThrough ==
    pc = "prompt" =>
        IF file.exists THEN file = dumps(Data_toJSON(data))
        ELSE data = EmptyData

\* C2: serialization round trip.  Saving the store and loading the file into
\* a fresh FileSystemStore gives back the customers and the orders, equal in
\* every field, the loyalty flags included.
C2_RoundTrip ==
    pc = "prompt" =>
        \A rid \in Ids :
            LET loaded == FileSystemStore(save(Self).file, now, rid)
            IN loaded.raised = "" /\ loaded.data = data

\* C3: order ids are unique: no two orders of the store have the same id.
C3_UniqueIds ==
    \A i, k \in 1 .. Len(Orders) : i # k => Orders[i].id # Orders[k].id

\* a step of one of the three status commands
MarkStep == MarkInProgressCommand \/ MarkCancelledCommand \/ MarkDoneCommand

\* the statuses of a list of orders, by position
Statuses(orders) == [k \in 1 .. Len(orders) |-> orders[k].status]

\* the placed and completed times of a list of orders, by position
Stamps(orders) ==
    [k \in 1 .. Len(orders) |-> <<orders[k].time, orders[k].completed_time>>]

\* C4 as claimed: DONE and CANCELLED are terminal, no status command changes
\* the status of an order that is DONE or CANCELLED.
C4_Terminal ==
    [][MarkStep =>
          \A i \in 1 .. Len(Orders) :
              Orders[i].status \in {DONE, CANCELLED} =>
                  data'.active_orders[i].status = Orders[i].status]_vars

\* C4 as amended: DONE and CANCELLED are not terminal.  A status command that
\* finds its order sets that order's status to its own target (IN_PROGRESS,
\* CANCELLED, DONE) whatever the status was, and leaves the status of every
\* other order alone; the one status no status command restores is PENDING.
C4_Overwrites ==
    [][/\ (message' = "Marked order as in progress" /\ MarkInProgressCommand) =>
              \E id \in IdArgs :
                  /\ FindOrder(Self, id) # 0
                  /\ Statuses(data'.active_orders) =
                         [Statuses(Orders) EXCEPT ![FindOrder(Self, id)] = IN_PROGRESS]
       /\ (message' = "Marked order as cancelled" /\ MarkCancelledCommand) =>
              \E id \in IdArgs :
                  /\ FindOrder(Self, id) # 0
                  /\ Statuses(data'.active_orders) =
                         [Statuses(Orders) EXCEPT ![FindOrder(Self, id)] = CANCELLED]
       /\ (message' = "Marked order as completed" /\ MarkDoneCommand) =>
              \E id \in IdArgs :
                  /\ FindOrder(Self, id) # 0
                  /\ Statuses(data'.active_orders) =
                         [Statuses(Orders) EXCEPT ![FindOrder(Self, id)] = DONE]
       /\ \/ /\ Len(data'.active_orders) = Len(Orders)
             /\ \A k \in 1 .. Len(Orders) :
                    Orders[k].status # PENDING =>
                        data'.active_orders[k].status # PENDING
          \/ ~MarkStep]_vars

\* C4 witness: an order that was marked done (its completed_time is set) has
\* since been put in progress or cancelled by a status command.
C4_Witness ==
    /\ pc = "prompt"
    /\ message \in {"Marked order as in progress", "Marked order as cancelled"}
    /\ \E i \in 1 .. Len(Orders) :
           /\ Orders[i].status \in {IN_PROGRESS, CANCELLED}
           /\ Orders[i].completed_time # None

\* C5: mark_done sets completed_time of the order it finds to a time that is
\* not None and not before the order's time, and touches no other timestamp;
\* mark_in_progress and mark_cancelled leave time and completed_time of every
\* order as they were.
C5_Timestamps ==
    [][/\ (message' = "Marked order as completed" /\ MarkDoneCommand) =>
              \E id \in IdArgs :
                  LET i == FindOrder(Self, id)
                      after == data'.active_orders
                  IN /\ i # 0
                     /\ Len(after) = Len(Orders)
                     /\ after[i].completed_time # None
                     /\ after[i].completed_time[1] >= after[i].time
                     /\ after[i].time = Orders[i].time
                     /\ \A k \in 1 .. Len(Orders) :
                            k # i => Stamps(after)[k] = Stamps(Orders)[k]
       /\ (MarkInProgressCommand \/ MarkCancelledCommand) =>
              Stamps(data'.active_orders) = Stamps(Orders)]_vars

\* C5 witness: mark_done has just stamped an order that was placed at an
\* earlier tick.
C5_Witness ==
    /\ pc = "prompt"
    /\ message = "Marked order as completed"
    /\ \E i \in 1 .. Len(Orders) :
           /\ Orders[i].status = DONE
           /\ Orders[i].completed_time = Some(now)
           /\ Orders[i].time < now

\* C6: crash safety.  The file, once it exists, always holds a complete saved
\* state that can be loaded, also after the process died inside a save.
C6_CrashSafe == file.exists => Loadable(file)

\* C7: add_customer with a phone that is already present fails with an error
\* and changes nothing.  Every add_customer step, from the shell or from a
\* caller of the store, either reports the error and leaves customers, orders
\* and the file as they were, or adds one customer under a phone that was not
\* there and leaves every existing customer and the orders as they were (or
\* the process died inside the save).
C7_AddCustomerDuplicate ==
    [][(AddCustomerCommand \/ AddCustomer) =>
          \/ /\ message' \in {"Error adding customer", "DataError"}
             /\ UNCHANGED <<data, file>>
          \/ /\ message' \in {"Added customer", "add_customer returned"}
             /\ \E phone \in Phones \ DOMAIN Customers :
                    DOMAIN data'.all_customers = DOMAIN Customers \cup {phone}
             /\ \A p \in DOMAIN Customers : data'.all_customers[p] = Customers[p]
             /\ data'.active_orders = Orders
          \/ pc' = "crashed"]_vars

\* C7 witness: the shell has just refused a second customer under a phone
\* whose customer is a loyalty member, and that customer still is one.
C7_Witness ==
    /\ pc = "prompt"
    /\ message = "Error adding customer"
    /\ \E p \in DOMAIN Customers : Customers[p].loyalty_member

\* C8: get_or_add_customer is idempotent.  For a phone in the store it returns
\* the customer that is there and changes neither the store nor the file,
\* whatever name it is given; for an absent phone it inserts one customer, not
\* a loyalty member, and touches no other customer and no order; a second call
\* with the same phone yields the same customer and the same store as one call.
C8_GetOrAddIdempotent ==
    pc = "prompt" =>
        \A phone \in Phones, name \in Names, other \in Names :
            LET once == get_or_add_customer(Self, phone, name)
                got == get_or_add_customer_ret(Self, phone, name)
                again == Store(once.data, once.file)
                twice == get_or_add_customer(again, phone, other)
                got2 == get_or_add_customer_ret(again, phone, other)
            IN /\ phone \in DOMAIN Customers =>
                      /\ once.data = data /\ once.file = file /\ ~once.saved
                      /\ got = Customers[phone]
               /\ phone \notin DOMAIN Customers =>
                      /\ DOMAIN once.data.all_customers =
                             DOMAIN Customers \cup {phone}
                      /\ \A p \in DOMAIN Customers :
                             once.data.all_customers[p] = Customers[p]
                      /\ once.data.active_orders = Orders
                      /\ got.phone = phone /\ got.name = name
                      /\ got.loyalty_member = FALSE
               /\ twice.data = once.data /\ twice.file = once.file
               /\ got2 = got

\* C8 witness: fake_customers ran one round of get_or_add_customer and the
\* store still holds one customer only, a loyalty member: the round drew the
\* phone of the customer that was there and left that customer as it was.
C8_Witness ==
    /\ pc = "prompt"
    /\ message = "Added 1 customers"
    /\ Cardinality(DOMAIN Customers) = 1
    /\ \A p \in DOMAIN Customers : Customers[p].loyalty_member

\* C9: every order of the store has a non-empty items mapping from catalog
\* names to positive quantities (add_order rejects anything else).
C9_ValidItems ==
    \A i \in 1 .. Len(Orders) :
        /\ Orders[i].items # <<>>
        /\ \A n \in DOMAIN Orders[i].items :
               n \in DOMAIN all_items /\ Orders[i].items[n] > 0

\* C10: referential integrity.  Every order of the store references the
\* customer object the store holds under that customer's phone (add_order
\* with a customer that is not in the store creates no order).
C10_Referential ==
    \A i \in 1 .. Len(Orders) :
        /\ Orders[i].customer.inStore
        /\ Orders[i].customer.phone \in DOMAIN Customers

\* the fields of an order that are fixed once add_order has returned it
Frozen(order) ==
    <<order.id, order.customer.phone, order.items, order.is_home_delivery,
      order.time>>

\* the same fields of an order as save() wrote it
FrozenSaved(j) == <<j.id, j.customer, j.items, j.is_home_delivery, j.time>>

\* the orders the store held stay where they were, with their fixed fields
KeepsOrders ==
    /\ Len(data'.active_orders) >= Len(Orders)
    /\ \A i \in 1 .. Len(Orders) :
           /\ Frozen(data'.active_orders[i]) = Frozen(Orders[i])
           /\ data'.active_orders[i].customer = Orders[i].customer

\* C11: orders are append-only.  No command changes id, customer, items,
\* is_home_delivery or time of an order the store already held, and an order
\* a command adds is, when the command returns, as add_order returned it
\* (which is how add_order's save() wrote it to the file).
C11_AppendOnly ==
    [][(pc = "prompt" /\ pc' = "prompt") =>
          /\ KeepsOrders
          /\ \A i \in (Len(Orders) + 1) .. Len(data'.active_orders) :
                 Frozen(data'.active_orders[i]) =
                     FrozenSaved(file'.json.active_orders[i])]_vars

\* the OrderCost of the i-th order of the store
CostOf(i) == cost(Orders[i], CustomerOf(Self, Orders[i].customer))

\* whether the customer of the i-th order is a loyalty member
MemberOf(i) == CustomerOf(Self, Orders[i].customer).loyalty_member

\* C12: discount rule.  For every order whose cost is computed, the discount
\* is exactly 5% of raw_cost when raw_cost > 100 and the customer is a loyalty
\* member, and 0 otherwise: an order of raw_cost 100 or less gets none,
\* whatever the loyalty flag.  What order_info prints agrees: a discount line
\* with that amount, or none.
C12_Discount ==
    /\ \A i \in 1 .. Len(Orders) :
           LET c == CostOf(i).costing
           IN CostOf(i).raised = "" =>
                  /\ (c.raw_cost > Fixed(10000) /\ MemberOf(i)) =>
                         c.discount * 100 = c.raw_cost * 5
                  /\ ~(c.raw_cost > Fixed(10000) /\ MemberOf(i)) =>
                         c.discount = 0
                  /\ c.raw_cost <= Fixed(10000) => c.discount = 0
    /\ (pc = "prompt" /\ message = "Order") =>
           LET text == output[1]
               member == Customers[text.customer[2]].loyalty_member
           IN IF text.gross > Fixed(10000) /\ member
              THEN /\ text.discount # None
                   /\ text.discount[1] * 100 = text.gross * 5
              ELSE text.discount = None

\* C12 witness: order_info has printed an order of exactly 100.00 of a loyalty
\* member without a discount line, and the store also holds an order of a
\* loyalty member above 100.00, whose cost carries the discount.
C12_Witness ==
    /\ pc = "prompt"
    /\ message = "Order"
    /\ output[1].gross = Fixed(10000)
    /\ output[1].discount = None
    /\ Customers[output[1].customer[2]].loyalty_member
    /\ \E i \in 1 .. Len(Orders) :
           /\ MemberOf(i)
           /\ CostOf(i).costing.raw_cost = Fixed(11100)
           /\ CostOf(i).costing.discount = Fixed(555)

\* the quantity of a catalog item in an items mapping
Quantity(items, n) == IF n \in DOMAIN items THEN items[n] ELSE 0

\* the sum of unit price times quantity over the catalog
RawCost(items) ==
    Fixed(2100) * Quantity(items, "Pepperoni")
    + Fixed(2350) * Quantity(items, "Chicken Supreme")
    + Fixed(2550) * Quantity(items, "BBQ Meatlovers")
    + Fixed(2250) * Quantity(items, "Veg Supreme")
    + Fixed(1900) * Quantity(items, "Hawaiian")
    + Fixed(1850) * Quantity(items, "Margherita")

\* C13: cost totals.  For every order with catalog items, raw_cost is the sum
\* of unit price times quantity, cost_before_gst = raw_cost - discount +
\* delivery_cost, gst is 10% of cost_before_gst (not of raw_cost), and
\* cost_after_gst = cost_before_gst + gst = 1.10 times (raw_cost - discount +
\* delivery_cost); order_info prints these amounts.
C13_Totals ==
    /\ \A i \in 1 .. Len(Orders) :
           LET c == CostOf(i).costing
           IN CostOf(i).raised = "" =>
                  /\ c.raw_cost = RawCost(Orders[i].items)
                  /\ c.cost_before_gst =
                         c.raw_cost - c.discount + c.delivery_cost
                  /\ c.gst * 10 = c.cost_before_gst
                  /\ c.cost_after_gst = c.cost_before_gst + c.gst
                  /\ c.cost_after_gst * 10 =
                         (c.raw_cost - c.discount + c.delivery_cost) * 11
    /\ (pc = "prompt" /\ message = "Order") =>
           LET text == output[1]
               discount == IF text.discount = None THEN 0 ELSE text.discount[1]
               delivery == IF text.delivery = None THEN 0 ELSE text.delivery[1]
           IN /\ text.gross = RawCost(text.items)
              /\ text.gst * 10 = text.gross - discount + delivery
              /\ text.total = text.gross - discount + delivery + text.gst

\* C13 witness: order_info has printed a delivered order of a loyalty member:
\* gross 111.00, discount 5.55, delivery fee, and a tax that is a tenth of
\* the subtotal and differs from a tenth of the gross.
C13_Witness ==
    /\ pc = "prompt"
    /\ message = "Order"
    /\ output[1].gross = Fixed(11100)
    /\ output[1].discount = Some(Fixed(555))
    /\ output[1].delivery # None
    /\ output[1].gst * 10 # output[1].gross
    /\ output[1].total * 10 =
           (Fixed(11100) - Fixed(555) + output[1].delivery[1]) * 11

\* C14 as claimed: delivery_cost is the flat fee 5.00 for a home delivery and
\* 0 otherwise.
C14_DeliveryFee5 ==
    \A i \in 1 .. Len(Orders) :
        CostOf(i).raised = "" =>
            CostOf(i).costing.delivery_cost =
                IF Orders[i].is_home_delivery THEN Fixed(500) ELSE 0

\* C14 as amended: delivery_cost is the flat fee 8.00 for a home delivery and
\* 0 otherwise, whatever the items and the loyalty flag are; order_info
\* prints a delivery line of 8.00 for a home delivery and none otherwise.
C14_DeliveryFee8 ==
    /\ \A i \in 1 .. Len(Orders) :
           CostOf(i).raised = "" =>
               CostOf(i).costing.delivery_cost =
                   IF Orders[i].is_home_delivery THEN Fixed(800) ELSE 0
    /\ (pc = "prompt" /\ message = "Order") =>
           output[1].delivery =
               IF output[1].home_delivery THEN Some(Fixed(800)) ELSE None

\* C14 witness: order_info has printed the fee of 8.00 for a home delivery of
\* 18.50 worth of pizza, and the store also holds an order that is no home
\* delivery, whose cost has no delivery fee.
C14_Witness ==
    /\ pc = "prompt"
    /\ message = "Order"
    /\ output[1].home_delivery
    /\ output[1].gross = Fixed(1850)
    /\ output[1].delivery = Some(Fixed(800))
    /\ \E i \in 1 .. Len(Orders) :
           /\ ~Orders[i].is_home_delivery
           /\ CostOf(i).costing.delivery_cost = 0

\* C15: the cost computation fails, instead of returning a cost, for every
\* order with an item name that is not in the catalog or a quantity <= 0.
C15_CostRejects ==
    \A i \in 1 .. Len(Orders) :
        (\E n \in DOMAIN Orders[i].items :
             n \notin DOMAIN all_items \/ Orders[i].items[n] <= 0)
            => CostOf(i).raised # ""

\* C16: Order.cost is pure and idempotent.  A second call on the order the
\* first call left returns the same breakdown and the same order; and the
\* commands that call it (order_info, daily_summary) leave the orders, the
\* customers and the file as they were, order_info printing the breakdown a
\* further call gives.
C16_CostPure ==
    /\ [](\A i \in 1 .. Len(Orders) :
              LET customer == CustomerOf(Self, Orders[i].customer)
                  once == cost(Orders[i], customer)
                  twice == cost(once.order, customer)
              IN /\ once.order = Orders[i]
                 /\ twice = once)
    /\ [][/\ (OrderInfoCommand \/ DailySummaryCommand) =>
                  /\ data' = data
                  /\ file' = file
          /\ (OrderInfoCommand /\ message' = "Order") =>
                  \E i \in 1 .. Len(Orders) :
                      LET c == cost(data'.active_orders[i],
                                    CustomerOf(Self, Orders[i].customer)).costing
                      IN /\ output'[1].id = Orders[i].id
                         /\ output'[1].gross = c.raw_cost
                         /\ output'[1].gst = c.gst
                         /\ output'[1].total = c.cost_after_gst]_vars

\* C16 witness: order_info has printed the cost of a loyalty member's home
\* delivery above 100.00 and the order still has its items.
C16_Witness ==
    /\ pc = "prompt"
    /\ message = "Order"
    /\ output[1].discount # None
    /\ output[1].delivery # None
    /\ \E i \in 1 .. Len(Orders) :
           /\ Orders[i].id = output[1].id
           /\ Orders[i].items = output[1].items
           /\ Orders[i].items # <<>>

\* the discount of the i-th order after the step
DiscountAfter(i) ==
    cost(data'.active_orders[i],
         data'.all_customers[Orders[i].customer.phone]).costing.discount

\* C17: the loyalty discount is recomputed live.  After set_loyalty the
\* discount of every order is what the customer's flag is now: 5% of raw_cost
\* for an order above 100 of a member, 0 otherwise.  So the discount of an
\* order changes exactly when the flag of its customer changed and its
\* raw_cost is above 100, and set_loyalty changes the flag of one customer at
\* most and no order.
C17_LiveLoyalty ==
    [][(SetCustomerLoyaltyCommand \/ SetCustomerLoyalty) /\ pc' = "prompt" =>
          /\ data'.active_orders = Orders
          /\ \A p, q \in DOMAIN Customers :
                 (/\ data'.all_customers[p] # Customers[p]
                  /\ data'.all_customers[q] # Customers[q]) => p = q
          /\ \A i \in 1 .. Len(Orders) :
                 LET p == Orders[i].customer.phone
                     raw == CostOf(i).costing.raw_cost
                     flipped == data'.all_customers[p].loyalty_member
                                    # Customers[p].loyalty_member
                 IN (Orders[i].customer.inStore /\ CostOf(i).raised = "") =>
                        /\ DiscountAfter(i) =
                               IF raw > Fixed(10000)
                                  /\ data'.all_customers[p].loyalty_member
                               THEN (raw * 5) \div 100 ELSE 0
                        /\ (DiscountAfter(i) # CostOf(i).costing.discount)
                               <=> (flipped /\ raw > Fixed(10000))]_vars

\* C17 witness: set_loyalty has made a customer a loyalty member after the
\* store saved an order of theirs above 100.00 (the file still has them as no
\* member); that order now costs with the discount, and an order above 100.00
\* of the other customer, who is no member, costs without.
C17_Witness ==
    /\ pc = "prompt"
    /\ message = "Set loyalty status"
    /\ \E i, k \in 1 .. Len(Orders) :
           /\ Orders[i].customer.phone # Orders[k].customer.phone
           /\ MemberOf(i)
           /\ ~file.json.all_customers[Orders[i].customer.phone].loyalty_member
           /\ Len(file.json.active_orders) = Len(Orders)
           /\ CostOf(i).costing.discount = Fixed(555)
           /\ ~MemberOf(k)
           /\ CostOf(k).costing.raw_cost = Fixed(11100)
           /\ CostOf(k).costing.discount = 0

\* the instants a caller may ask get_date_orders about: two years of ticks
QueryTimes == 0 .. (2 * DayLen * YearLen - 1)

\* whether two instants fall on the same calendar day
SameDay(t, u) ==
    /\ localtime(t).tm_year = localtime(u).tm_year
    /\ localtime(t).tm_yday = localtime(u).tm_yday

\* the orders of the store placed on the calendar day of t, in insertion order
OrdersOfDay(t) ==
    LET placedThatDay(order) == SameDay(order.time, t)
    IN SelectSeq(Orders, placedThatDay)

\* C18: get_date_orders(t) returns exactly the orders placed on the calendar
\* day of t (same year, same day), in insertion order.
C18_CalendarDay ==
    \A t \in QueryTimes : get_date_orders(Self, t).elems = OrdersOfDay(t)

\* C19: get_date_orders without an argument, as view_orders calls it, returns
\* what get_date_orders returns for the time of the call: the orders of the
\* day that is current then, not of the day the process started on.
C19_CurrentDay ==
    pc = "prompt" =>
        get_date_orders(Self, default_t).elems = get_date_orders(Self, now).elems

\* the ids of a list of orders or of printed order lines, by position
IdsOf(l) == [k \in 1 .. Len(l) |-> l[k].id]

\* C20: get_all_time_orders returns the store's orders in insertion order:
\* no step of the running program moves or drops an order the store holds,
\* unless clear_orders drops them all; and view_orders, which sorts the list it was handed by
\* status and time, leaves the store's orders and the file as they were (and
\* prints every order of the store when asked for all of them).
C20_InsertionOrder ==
    /\ [](get_all_time_orders(Self).elems = Orders)
    /\ [][/\ (pc = "prompt" /\ pc' = "prompt") =>
                 \/ KeepsOrders
                 \/ ClearOrders /\ data'.active_orders = <<>>
          /\ ViewActiveOrdersCommand =>
                 /\ data' = data
                 /\ file' = file
                 /\ message' = "All time orders:" =>
                        LET shown == output'[1].active \o output'[1].completed
                        IN /\ Len(shown) = Len(Orders)
                           /\ \A i \in 1 .. Len(Orders) :
                                  \E k \in 1 .. Len(shown) :
                                      shown[k] =
                                          small_repr(Orders[i],
                                              CustomerOf(Self,
                                                  Orders[i].customer))]_vars

\* C20 witness: view_orders true has printed two orders in another order
\* than the store holds them in, which is still the one they were taken in.
C20_Witness ==
    /\ pc = "prompt"
    /\ message = "All time orders:"
    /\ Len(Orders) = 2
    /\ IdsOf(Orders) = <<IdLo, IdLo + 1>>
    /\ IdsOf(output[1].active \o output[1].completed) = <<IdLo + 1, IdLo>>

\* C21: customers are never deleted.  While the program runs, every step
\* leaves each phone of the store in the store, under a customer with the same
\* phone and name (get_customer returns it; the loyalty flag may differ), and
\* a clear_orders that returns has emptied the orders and left the customers
\* exactly as they were.
C21_CustomersKept ==
    [][(pc = "prompt" /\ pc' = "prompt") =>
          /\ \A p \in DOMAIN Customers :
                 LET got == get_customer(Store(data', file'), p)
                 IN /\ got # None
                    /\ got[1].phone = Customers[p].phone
                    /\ got[1].name = Customers[p].name
                    /\ got[1].phone = p
          /\ \/ message' # "clear_orders returned"
             \/ ~ClearOrders
             \/ /\ data'.all_customers = Customers
                /\ data'.active_orders = <<>>
                /\ file' = dumps(Data_toJSON(data'))]_vars

\* C21 witness: clear_orders has returned, the orders are gone from memory
\* and from the file, and the store still holds a customer, a loyalty member.
C21_Witness ==
    /\ pc = "prompt"
    /\ message = "clear_orders returned"
    /\ Orders = <<>>
    /\ file.json.active_orders = <<>>
    /\ \E p \in DOMAIN Customers :
           /\ Customers[p].loyalty_member
           /\ file.json.all_customers[p].loyalty_member

\* C22: the cost of an order is stable across a restart.  When the store is
\* saved and the file loaded into a fresh store, the load succeeds and every
\* order costs after the load what it cost before, in every field.
C22_CostAcrossRestart ==
    pc = "prompt" =>
        \A rid \in Ids :
            LET loaded == FileSystemStore(save(Self).file, now, rid)
                after == loaded.data.active_orders
            IN /\ loaded.raised = ""
               /\ Len(after) = Len(Orders)
               /\ \A i \in 1 .. Len(Orders) :
                      LET c == cost(after[i],
                                    CustomerOf(loaded, after[i].customer))
                      IN /\ c.raised = CostOf(i).raised
                         /\ c.costing = CostOf(i).costing

\* C23: a clean exit of the loop (exit, or the second Ctrl-C in a row at the
\* prompt) is followed by one more save: whenever the program goes from the
\* prompt to having exited, the file it leaves is completely written and holds
\* the serialization of the store as it was in memory at that moment, status
\* and loyalty changes included.  The file differs from that serialization
\* after the process ended only when the process did not get through the save.
C23_FinalSave ==
    [][(pc = "prompt" /\ pc' # "prompt") =>
          /\ (pc' = "exited") =>
                 /\ ExitCommand \/ KeyboardInterrupt
                 /\ file' = dumps(Data_toJSON(data))
                 /\ Loadable(file')
                 /\ file'.json.all_customers = Data_toJSON(data).all_customers
                 /\ file'.json.active_orders = Data_toJSON(data).active_orders
          /\ (file' # dumps(Data_toJSON(data))) => pc' = "crashed"]_vars

\* C23 witness: the program has exited and the file holds an order marked
\* done, a change mark_done made in memory only, so the save at exit wrote it.
C23_Witness ==
    /\ pc = "exited"
    /\ message = "Exited"
    /\ Loadable(file)
    /\ \E i \in 1 .. Len(file.json.active_orders) :
           /\ file.json.active_orders[i].status = "DONE"
           /\ file.json.active_orders[i].completed_time # None

\* C24: an order whose status is DONE has a completed_time, in memory and in
\* every completely written file, so full_repr always has a completion time
\* to format; and an order that was never marked done has none: a new order
\* starts without one, only the mark_done command sets the completed_time of
\* an order, and a restart reads status and completed_time back as the file
\* holds them.
C24_DoneHasCompletedTime ==
    /\ [](/\ \A i \in 1 .. Len(Orders) :
                 Orders[i].status = DONE => Orders[i].completed_time # None
          /\ (file.exists /\ Loadable(file)) =>
                 \A i \in 1 .. Len(file.json.active_orders) :
                     file.json.active_orders[i].status = "DONE" =>
                         file.json.active_orders[i].completed_time # None)
    /\ [][/\ (pc = "prompt" /\ pc' = "prompt") =>
              \A i \in 1 .. Len(data'.active_orders) :
                  \/ data'.active_orders[i].completed_time = None
                  \/ /\ i <= Len(Orders)
                     /\ \/ data'.active_orders[i].completed_time =
                               Orders[i].completed_time
                        \/ /\ data'.active_orders[i].status = DONE
                           /\ message' = "Marked order as completed"
                           /\ MarkDoneCommand
          /\ (pc # "prompt" /\ pc' = "prompt") =>
              /\ Len(data'.active_orders) = Len(file.json.active_orders)
              /\ \A i \in 1 .. Len(data'.active_orders) :
                     /\ data'.active_orders[i].completed_time =
                            file.json.active_orders[i].completed_time
                     /\ data'.active_orders[i].status =
                            StatusOfName(file.json.active_orders[i].status)]_vars

\* C24 witness: the program was started again on the file it wrote and holds
\* an order that is DONE with the completed_time it was saved with.
C24_Witness ==
    /\ pc = "prompt"
    /\ message = "Welcome"
    /\ \E i \in 1 .. Len(Orders) :
           /\ Orders[i].status = DONE
           /\ Orders[i].completed_time # None
           /\ file.json.active_orders[i].completed_time = Orders[i].completed_time

\* the effect of a status command: for the id it was given, it reports that
\* the order was not found and changes nothing, or it changes status and
\* completed_time of the first order with that id and nothing else
MarkFrame ==
    \/ ~MarkStep
    \/ \E id \in IdArgs :
           LET i == FindOrder(Self, id)
               after == data'.active_orders
           IN IF i = 0
              THEN /\ message' = "Order not found"
                   /\ UNCHANGED <<data, file>>
              ELSE /\ message' # "Order not found"
                   /\ Orders[i].id = id
                   /\ \A k \in 1 .. i - 1 : Orders[k].id # id
                   /\ data'.all_customers = Customers
                   /\ Len(after) = Len(Orders)
                   /\ \A k \in 1 .. Len(Orders) : k # i => after[k] = Orders[k]
                   /\ after[i] = [Orders[i] EXCEPT
                                     !.status = after[i].status,
                                     !.completed_time = after[i].completed_time]

\* every order of the store is the one some id lookup finds
NoOrderShadowed ==
    \A i \in 1 .. Len(Orders) : \E id \in IdArgs : FindOrder(Self, id) = i

\* C25: a status command given an order id changes the status of one order,
\* the first in insertion order with that id, and leaves every other order
\* and all customers unchanged; given an id no order has it changes nothing
\* and reports that the order was not found.  And whenever the shell waits
\* for a command, every order can be reached by some id lookup: none is
\* shadowed by an earlier order with the same id.
C25_MarkFrameAndReach ==
    /\ [][MarkFrame]_vars
    /\ [](pc = "prompt" => NoOrderShadowed)

====
